---- MODULE Spec2Model ----
(***************************************************************************)
(* ratio-calc: exact rational arithmetic (src/src/lib.rs) with the         *)
(* two-pass expression evaluator Rational::run_expr, the process-wide      *)
(* prime cache PRIMES used by gcd, and the line driver of src/src/main.rs. *)
(*                                                                         *)
(* Three specifications share the variables:                               *)
(*   Spec       one call of run_expr on one input line, then main's print  *)
(*   SpecOps    the operator overloads of Rational applied to values       *)
(*              built through the public API                               *)
(*   SpecPrimes several threads consuming primes() concurrently            *)
(***************************************************************************)
EXTENDS Integers, Sequences, FiniteSets, TLC

VARIABLES
    PRIMES,      \* static PRIMES: Mutex<Vec<u64>>, the cached primes
    line,        \* run_expr: expr, a sequence of characters
    pc,          \* position of the running specification in its code
    pos,         \* run_expr: index of the character the scan is at
    cur,         \* run_expr: Option<Rational>, <<>> is None, <<r>> is Some(r)
    parts,       \* run_expr: Vec<Rational> of operands
    ops,         \* run_expr: Vec<Op> of operators
    tier,        \* run_expr: position in OP_PRECEDENCE (1-based)
    index,       \* run_expr: index of the reduction loop (0-based)
    result,      \* outcome of the last operation: [tag, val]
    shown,       \* text written by the last formatting
    opA,         \* SpecOps: left operand (self)
    opB,         \* SpecOps: right operand
    opRhs,       \* SpecOps: plain-integer right operand of the last operation
    lockHolder,  \* SpecPrimes: thread holding the PRIMES mutex, 0 when free
    tpc,         \* SpecPrimes: per thread, position inside the primes() closure
    te,          \* SpecPrimes: per thread, the index e of its iterator
    tprime,      \* SpecPrimes: per thread, local `prime` found by trial division
    tval         \* SpecPrimes: per thread, sequence of primes it was handed

vars == <<PRIMES, line, pc, pos, cur, parts, ops, tier, index, result, shown,
          opA, opB, opRhs, lockHolder, tpc, te, tprime, tval>>

exprVars == <<line, pos, cur, parts, ops, tier, index>>
opVars == <<opA, opB, opRhs>>
threadVars == <<lockHolder, tpc, te, tprime, tval>>

(***************************************************************************)
(* Bounds of the model.                                                    *)
(***************************************************************************)
\* longest input line, in characters
MaxLen == 5
\* integers handed to From<i64> and to the integer overloads: -MaxInt..MaxInt
MaxInt == 7
\* integers handed to the plain-integer overloads: -MaxRhs..MaxRhs
MaxRhs == 2
\* a returned value is kept as an operand when both components are within
\* -MaxKeep..MaxKeep
MaxKeep == 3
\* longest iterator handed to Product::product
MaxItems == 2
\* threads consuming primes()
NumThreads == 2
\* highest iterator index a thread asks for
MaxIndex == 3

(***************************************************************************)
(* Integer helpers: Rust's / and % on i64 truncate toward zero.            *)
(***************************************************************************)
Abs(x) == IF x < 0 THEN -x ELSE x

TruncDiv(a, b) ==
    IF (a >= 0) = (b > 0) THEN Abs(a) \div Abs(b) ELSE -(Abs(a) \div Abs(b))

TruncRem(a, b) == a - b * TruncDiv(a, b)

Min2(a, b) == IF a <= b THEN a ELSE b
Max2(a, b) == IF a >= b THEN a ELSE b

(***************************************************************************)
(* primes(): lib.rs 161-186.  The cache is a sequence, index e is 0-based. *)
(***************************************************************************)
\* the closure of .find(|cand| ...): walk the cache in order
RECURSIVE IsPrimeFrom(_, _, _)
IsPrimeFrom(cand, cache, k) ==
    IF k > Len(cache) THEN TRUE
    ELSE IF cache[k] * cache[k] > cand THEN TRUE
    ELSE IF cand % cache[k] = 0 THEN FALSE
    ELSE IsPrimeFrom(cand, cache, k + 1)

IsPrimeCand(cand, cache) == IsPrimeFrom(cand, cache, 1)

\* (lock.last().unwrap() + 1..).find(..)
RECURSIVE FindFrom(_, _)
FindFrom(cand, cache) ==
    IF IsPrimeCand(cand, cache) THEN cand ELSE FindFrom(cand + 1, cache)

FindPrime(cache) == FindFrom(cache[Len(cache)] + 1, cache)

\* if lock.is_empty() { lock.push(2) }
EnsureTwo(cache) == IF cache = <<>> THEN <<2>> ELSE cache

\* one index lookup under the lock: the value handed out and the cache left
PrimesLookup(e, cache) ==
    LET c1 == EnsureTwo(cache) IN
    IF e < Len(c1)
    THEN [val |-> c1[e + 1], cache |-> c1]
    ELSE LET prime == FindPrime(c1) IN
         [val |-> prime, cache |-> Append(c1, prime)]

(***************************************************************************)
(* gcd: lib.rs 188-205.                                                    *)
(***************************************************************************)
\* while lowest % i == 0 && highest % i == 0 { ... }
RECURSIVE DivideOut(_, _, _, _)
DivideOut(lowest, highest, g, i) ==
    IF lowest % i = 0 /\ highest % i = 0
    THEN DivideOut(lowest \div i, highest \div i, g * i, i)
    ELSE [lowest |-> lowest, highest |-> highest, gcd |-> g]

\* for i in primes() { if lowest / i < 1 { break; } ... }
RECURSIVE GcdLoop(_, _, _, _, _)
GcdLoop(e, lowest, highest, g, cache) ==
    LET look == PrimesLookup(e, cache)
        i == look.val
    IN  IF lowest \div i < 1
        THEN [gcd |-> g, cache |-> look.cache]
        ELSE LET d == DivideOut(lowest, highest, g, i)
             IN  GcdLoop(e + 1, d.lowest, d.highest, d.gcd, look.cache)

\* the result of gcd(a, b) and the prime cache it leaves
GcdRun(a, b, cache) == GcdLoop(0, Min2(a, b), Max2(a, b), 1, cache)

gcd(a, b, cache) == GcdRun(a, b, cache).gcd

(***************************************************************************)
(* Rational(i64, i64) is the pair <<numerator, denominator>>.              *)
(***************************************************************************)
\* Rational::normalize, lib.rs 22-26
normalize(r, cache) ==
    LET g == gcd(Abs(r[1]), Abs(r[2]), cache)
    IN  <<TruncDiv(r[1], g), TruncDiv(r[2], g)>>

\* the cache after the gcd call made by normalize
CacheAfter(r, cache) == GcdRun(Abs(r[1]), Abs(r[2]), cache).cache

\* impl Default, lib.rs 88-92
default == <<0, 1>>

\* impl From<$i>, lib.rs 246-250
from(v) == <<v, 1>>

\* the pairs handed to normalize by each operator
\* impl Add, lib.rs 105-107
AddRaw(a, b) == <<a[1] * b[2] + b[1] * a[2], a[2] * b[2]>>
\* impl Sub, lib.rs 119-121
SubRaw(a, b) == <<a[1] * b[2] - b[1] * a[2], a[2] * b[2]>>
\* impl Mul, lib.rs 126-128
MulRaw(a, b) == <<a[1] * b[1], a[2] * b[2]>>
\* impl Div, lib.rs 137
DivRaw(a, b) == <<a[1] * b[2], a[2] * b[1]>>
\* a digit appended by place value
AddIntPositional(a, rhs) == <<a[1] * 10 + rhs * a[2], a[2]>>
\* impl Add<$i> and AddAssign<$i>, lib.rs 214, 220
AddIntRaw(a, rhs) == <<a[1] + rhs * a[2], a[2]>>
\* impl Sub<$i>, lib.rs 227
SubIntRaw(a, rhs) == <<a[1] - rhs * a[2], a[2]>>
\* impl Mul<$i>, lib.rs 234
MulIntRaw(a, rhs) == <<a[1] * rhs, a[2]>>
\* impl Div<$i>, lib.rs 242
DivIntRaw(a, rhs) == <<a[1], a[2] * rhs>>

\* impl Neg, lib.rs 97-99
neg(a) == <<-a[1], a[2]>>

(***************************************************************************)
(* Outcomes: Ok(value), the variants of enum Error (lib.rs 10-14), a panic *)
(* (unwinding, no value), or nothing yet.                                  *)
(***************************************************************************)
Ok(r) == [tag |-> "Ok", val |-> r]
DivisionByZero == [tag |-> "DivisionByZero", val |-> <<>>]
\* the index counted from one
InvalidSyntaxOneBased(i) == [tag |-> "InvalidSyntax", val |-> <<i + 1>>]
InvalidSyntax(i) == [tag |-> "InvalidSyntax", val |-> <<i>>]
InvalidExpr == [tag |-> "InvalidExpr", val |-> <<>>]
Panic == [tag |-> "Panic", val |-> <<>>]
NoResult == [tag |-> "None", val |-> <<>>]

\* impl Add for Rational, lib.rs 102-108
add(a, b, cache) == normalize(AddRaw(a, b), cache)
\* impl Sub for Rational, lib.rs 116-122
sub(a, b, cache) == normalize(SubRaw(a, b), cache)
\* impl Mul for Rational, lib.rs 123-129
mul(a, b, cache) == normalize(MulRaw(a, b), cache)

\* impl Div for Rational, lib.rs 130-139: the guard is on rhs.1
DivPanics(b) == b[2] = 0
div(a, b, cache) ==
    IF DivPanics(b) THEN Panic ELSE Ok(normalize(DivRaw(a, b), cache))

\* checked_div without its guard
checked_div_unguarded(a, other, cache) == div(a, other, cache)

\* the guard of checked_div reading the denominator, as the guard of div does
DivisorDenIsZero(other) == other[2] = 0

\* Rational::checked_div, lib.rs 73-79: the guard is on other.0
DivisorIsZero(other) == other[1] = 0
checked_div(a, other, cache) ==
    IF DivisorIsZero(other) THEN DivisionByZero ELSE div(a, other, cache)

\* impl Div<$i> for Rational, lib.rs 238-244: no guard at all
div_int(a, rhs, cache) == Ok(normalize(DivIntRaw(a, rhs), cache))

(***************************************************************************)
(* enum Op, lib.rs 256-290.                                                *)
(***************************************************************************)
OpChars == {"+", "-", "*", "/"}

\* impl From<char> for Op, lib.rs 280-290
OpFromChar(c) ==
    CASE c = "+" -> "Plus"
      [] c = "-" -> "Min"
      [] c = "*" -> "Star"
      [] c = "/" -> "Slash"

\* the tiers in the opposite order
OP_PRECEDENCE_swapped == << {"Plus", "Min"}, {"Slash", "Star"} >>

\* const OP_PRECEDENCE, lib.rs 275-278
OP_PRECEDENCE == << {"Slash", "Star"}, {"Plus", "Min"} >>

\* the pair Op::compute hands to normalize
ComputeRaw(op, a, b) ==
    CASE op = "Star" -> MulRaw(a, b)
      [] op = "Plus" -> AddRaw(a, b)
      [] op = "Min" -> SubRaw(a, b)
      [] op = "Slash" -> DivRaw(a, b)

\* Op::compute, lib.rs 265-272
compute(op, a, b, cache) ==
    CASE op = "Star" -> Ok(mul(a, b, cache))
      [] op = "Plus" -> Ok(add(a, b, cache))
      [] op = "Min" -> Ok(sub(a, b, cache))
      [] op = "Slash" -> checked_div(a, b, cache)

\* the prime cache after Op::compute: normalize runs only when a value is built
ComputeCache(op, a, b, cache) ==
    IF compute(op, a, b, cache).tag = "Ok"
    THEN CacheAfter(ComputeRaw(op, a, b), cache)
    ELSE cache

(***************************************************************************)
(* Formatting: impl Debug for Rational (lib.rs 141-153), the derived Debug *)
(* of Error and of Result, and the decimal rendering of an i64.            *)
(***************************************************************************)
DigitChars == <<"0", "1", "2", "3", "4", "5", "6", "7", "8", "9">>

RECURSIVE NatToStr(_)
NatToStr(n) ==
    IF n < 10 THEN DigitChars[n + 1]
    ELSE NatToStr(n \div 10) \o DigitChars[(n % 10) + 1]

IntToStr(n) == IF n < 0 THEN "-" \o NatToStr(-n) ELSE NatToStr(n)

\* a / b and a % b of the last branch divide by b
FmtPanics(r) == r[2] = 0

\* fmt with the quotient rounded toward minus infinity and the remainder
\* taken non-negative, as a / b and a % b are in other languages
fmt_floor(r) ==
    LET a == r[1]
        b == r[2]
    IN  IF b = 1 THEN IntToStr(a)
        ELSE IF b = -1 THEN IntToStr(-a)
        ELSE IntToStr(IF b > 0 THEN a \div b ELSE (-a) \div (-b))
             \o IntToStr(IF b > 0 THEN a % b ELSE -((-a) % (-b)))
             \o "/" \o IntToStr(b)

fmt(r) ==
    LET a == r[1]
        b == r[2]
    IN  IF b = 1 THEN IntToStr(a)
        ELSE IF b = -1 THEN IntToStr(-a)
        ELSE IntToStr(TruncDiv(a, b)) \o IntToStr(TruncRem(a, b))
             \o "/" \o IntToStr(b)

\* which branch of fmt a value takes
FmtBranch(r) ==
    IF r[2] = 1 THEN "plain" ELSE IF r[2] = -1 THEN "negated" ELSE "mixed"

\* {:?} of Result<Rational>, main.rs 9
FmtResult(res) ==
    CASE res.tag = "Ok" -> "Ok(" \o fmt(res.val) \o ")"
      [] res.tag = "DivisionByZero" -> "Err(DivisionByZero)"
      [] res.tag = "InvalidSyntax" ->
             "Err(InvalidSyntax(" \o IntToStr(res.val[1]) \o "))"
      [] res.tag = "InvalidExpr" -> "Err(InvalidExpr)"

(***************************************************************************)
(* Rational::run_expr, lib.rs 28-71, one action per loop iteration, and    *)
(* the println of main, main.rs 4-10.                                      *)
(***************************************************************************)
\* digits that occur in the input lines of the model
InputDigits == {"0", "2", "3"}
\* a character outside the accepted alphabet
BadChars == {"x"}
Alphabet == InputDigits \cup OpChars \cup {" "} \cup BadChars
Lines == UNION {[1..n -> Alphabet] : n \in 0..MaxLen}

\* the input lines the documentation of the evaluator works through
Line_23plus4 == <<"2", "3", "+", "4">>
Line_6div3mul2 == <<"6", "/", "3", "*", "2">>
Line_2plus3mul4 == <<"2", "+", "3", "*", "4">>
Line_1minus2minus3 == <<"1", "-", "2", "-", "3">>
Line_1div0 == <<"1", "/", "0">>
Line_1div0plus2 == <<"1", "/", "0", "+", "2">>
Line_2plus1div0mul3 == <<"2", "+", "1", "/", "0", "*", "3">>
Line_1plusx == <<"1", "+", "x">>
Line_0div5 == <<"0", "/", "5">>
Line_0minus7div2 == <<"0", "-", "7", "/", "2">>
SampleLines ==
    {Line_23plus4, Line_6div3mul2, Line_2plus3mul4, Line_1minus2minus3,
     Line_1div0, Line_1div0plus2, Line_2plus1div0mul3, Line_1plusx,
     Line_0div5, Line_0minus7div2}

Threads == 1..NumThreads

\* '0'..='9'
IsDigit(c) == \E d \in 1..10 : DigitChars[d] = c
\* (c as u8 - b'0') as u64
DigitValue(c) == (CHOOSE d \in 1..10 : DigitChars[d] = c) - 1

\* Vec::remove(i) for an index i < len, 0-based
RemoveAt(s, i) == SubSeq(s, 1, i) \o SubSeq(s, i + 2, Len(s))

ThreadsIdle ==
    /\ lockHolder = 0
    /\ tpc = [t \in Threads |-> "idle"]
    /\ te = [t \in Threads |-> 0]
    /\ tprime = [t \in Threads |-> 0]
    /\ tval = [t \in Threads |-> <<>>]

OpsIdle ==
    /\ opA = default
    /\ opB = default
    /\ opRhs = 0

ExprIdle ==
    /\ line = <<>>
    /\ pos = 0
    /\ cur = <<>>
    /\ parts = <<>>
    /\ ops = <<>>
    /\ tier = 0
    /\ index = 0

\* run_expr is entered with a line; PRIMES starts as Vec::new() (lib.rs 7)
Init ==
    /\ line \in Lines \cup SampleLines
    /\ pc = "scan"
    /\ pos = 0
    /\ cur = <<>>
    /\ parts = <<>>
    /\ ops = <<>>
    /\ tier = 0
    /\ index = 0
    /\ result = NoResult
    /\ shown = ""
    /\ PRIMES = <<>>
    /\ OpsIdle
    /\ ThreadsIdle

\* lib.rs 35: *cur.get_or_insert_default() += digit
ScanDigit ==
    /\ pc = "scan"
    /\ pos < Len(line)
    /\ IsDigit(line[pos + 1])
    /\ LET v == IF cur = <<>> THEN default ELSE cur[1]
           raw == AddIntRaw(v, DigitValue(line[pos + 1]))
       IN  /\ cur' = <<normalize(raw, PRIMES)>>
           /\ PRIMES' = CacheAfter(raw, PRIMES)
    /\ pos' = pos + 1
    /\ UNCHANGED <<line, pc, parts, ops, tier, index, result, shown>>
    /\ UNCHANGED <<opVars, threadVars>>

\* lib.rs 36-42
ScanOp ==
    /\ pc = "scan"
    /\ pos < Len(line)
    /\ line[pos + 1] \in OpChars
    /\ parts' = IF cur # <<>> THEN Append(parts, cur[1]) ELSE parts
    /\ cur' = <<>>
    /\ ops' = Append(ops, OpFromChar(line[pos + 1]))
    /\ pos' = pos + 1
    /\ UNCHANGED <<PRIMES, line, pc, tier, index, result, shown>>
    /\ UNCHANGED <<opVars, threadVars>>

\* lib.rs 43
ScanSpace ==
    /\ pc = "scan"
    /\ pos < Len(line)
    /\ line[pos + 1] = " "
    /\ pos' = pos + 1
    /\ UNCHANGED <<PRIMES, line, pc, cur, parts, ops, tier, index, result, shown>>
    /\ UNCHANGED <<opVars, threadVars>>

\* lib.rs 44
ScanInvalid ==
    /\ pc = "scan"
    /\ pos < Len(line)
    /\ ~IsDigit(line[pos + 1])
    /\ line[pos + 1] \notin OpChars
    /\ line[pos + 1] # " "
    /\ result' = InvalidSyntax(pos)
    /\ pc' = "returned"
    /\ UNCHANGED <<PRIMES, line, pos, cur, parts, ops, tier, index, shown>>
    /\ UNCHANGED <<opVars, threadVars>>

\* lib.rs 49-51: no operand pending at the end of the scan
ScanEndNone ==
    /\ pc = "scan"
    /\ pos = Len(line)
    /\ cur = <<>>
    /\ result' = InvalidExpr
    /\ pc' = "returned"
    /\ UNCHANGED <<PRIMES, line, pos, cur, parts, ops, tier, index, shown>>
    /\ UNCHANGED <<opVars, threadVars>>

\* lib.rs 49-57: parts.push(last), then the first tier with index = 0
ScanEndSome ==
    /\ pc = "scan"
    /\ pos = Len(line)
    /\ cur # <<>>
    /\ parts' = Append(parts, cur[1])
    /\ pc' = "reduce"
    /\ tier' = 1
    /\ index' = 0
    /\ UNCHANGED <<PRIMES, line, pos, cur, ops, result, shown>>
    /\ UNCHANGED <<opVars, threadVars>>

\* lib.rs 59-63: the operator at index belongs to the tier
ReduceApply ==
    /\ pc = "reduce"
    /\ index < Len(ops)
    /\ ops[index + 1] \in OP_PRECEDENCE[tier]
    /\ ops' = RemoveAt(ops, index)
    /\ IF index >= Len(parts)
       THEN \* parts.remove(index) is out of bounds
            /\ result' = Panic
            /\ pc' = "returned"
            /\ UNCHANGED <<PRIMES, parts>>
       ELSE LET op == ops[index + 1]
                a == parts[index + 1]
                parts1 == RemoveAt(parts, index)
            IN  IF index >= Len(parts1)
                THEN \* &mut parts[index] is out of bounds
                     /\ result' = Panic
                     /\ pc' = "returned"
                     /\ parts' = parts1
                     /\ UNCHANGED PRIMES
                ELSE LET b == parts1[index + 1]
                         out == compute(op, a, b, PRIMES)
                     IN  /\ PRIMES' = ComputeCache(op, a, b, PRIMES)
                         /\ IF out.tag = "Ok"
                            THEN /\ parts' = [parts1 EXCEPT ![index + 1] = out.val]
                                 /\ UNCHANGED <<result, pc>>
                            ELSE \* the ? of lib.rs 63 returns the error
                                 /\ parts' = parts1
                                 /\ result' = out
                                 /\ pc' = "returned"
    /\ UNCHANGED <<line, pos, cur, tier, index, shown>>
    /\ UNCHANGED <<opVars, threadVars>>

\* lib.rs 64-66
ReduceSkip ==
    /\ pc = "reduce"
    /\ index < Len(ops)
    /\ ops[index + 1] \notin OP_PRECEDENCE[tier]
    /\ index' = index + 1
    /\ UNCHANGED <<PRIMES, line, pc, pos, cur, parts, ops, tier, result, shown>>
    /\ UNCHANGED <<opVars, threadVars>>

\* lib.rs 56-58: the while loop ends, the next tier starts
NextTier ==
    /\ pc = "reduce"
    /\ index >= Len(ops)
    /\ tier < Len(OP_PRECEDENCE)
    /\ tier' = tier + 1
    /\ index' = 0
    /\ UNCHANGED <<PRIMES, line, pc, pos, cur, parts, ops, result, shown>>
    /\ UNCHANGED <<opVars, threadVars>>

\* lib.rs 70: Ok(parts[0])
ReturnOk ==
    /\ pc = "reduce"
    /\ index >= Len(ops)
    /\ tier = Len(OP_PRECEDENCE)
    /\ result' = IF parts = <<>> THEN Panic ELSE Ok(parts[1])
    /\ pc' = "returned"
    /\ UNCHANGED <<PRIMES, line, pos, cur, parts, ops, tier, index, shown>>
    /\ UNCHANGED <<opVars, threadVars>>

\* main.rs 6-9: println!("{:?}", res); a panic of run_expr unwinds past it
MainPrintln ==
    /\ pc = "returned"
    /\ result.tag # "Panic"
    /\ IF result.tag = "Ok" /\ FmtPanics(result.val)
       THEN /\ result' = Panic
            /\ UNCHANGED <<shown, pc>>
       ELSE /\ shown' = FmtResult(result)
            /\ pc' = "printed"
            /\ UNCHANGED result
    /\ UNCHANGED <<PRIMES, line, pos, cur, parts, ops, tier, index>>
    /\ UNCHANGED <<opVars, threadVars>>

Next ==
    \/ ScanDigit
    \/ ScanOp
    \/ ScanSpace
    \/ ScanInvalid
    \/ ScanEndNone
    \/ ScanEndSome
    \/ ReduceApply
    \/ ReduceSkip
    \/ NextTier
    \/ ReturnOk
    \/ MainPrintln

Spec == Init /\ [][Next]_vars

(***************************************************************************)
(* SpecOps: the public operators of Rational applied to two values opA and *)
(* opB.  The values start as From<i64> conversions; a returned value may   *)
(* be kept as a later operand, so every operand is a value the API built.  *)
(* pc names the operation that produced `result`.                          *)
(***************************************************************************)
\* the values pc takes after an operator has returned
OpNames ==
    {"add", "sub", "mul", "div", "checked_div", "neg",
     "add_int", "sub_int", "mul_int", "div_int", "product"}

IntInputs == (0 - MaxInt)..MaxInt
RhsInputs == (0 - MaxRhs)..MaxRhs

InitOps ==
    /\ \E v \in IntInputs : opA = from(v)
    /\ \E v \in IntInputs : opB = from(v)
    /\ opRhs = 0
    /\ pc = "ready"
    /\ result = NoResult
    /\ shown = ""
    /\ PRIMES = <<>>
    /\ ExprIdle
    /\ ThreadsIdle

\* a binary operator that always builds a value through normalize
Binary(name, raw) ==
    /\ pc = "ready"
    /\ pc' = name
    /\ result' = Ok(normalize(raw, PRIMES))
    /\ PRIMES' = CacheAfter(raw, PRIMES)
    /\ UNCHANGED <<opA, opB, opRhs, shown, exprVars, threadVars>>

\* lib.rs 105-107
DoAdd == Binary("add", AddRaw(opA, opB))
\* lib.rs 119-121
DoSub == Binary("sub", SubRaw(opA, opB))
\* lib.rs 126-128
DoMul == Binary("mul", MulRaw(opA, opB))

\* lib.rs 133-138
DoDiv ==
    /\ pc = "ready"
    /\ pc' = "div"
    /\ result' = div(opA, opB, PRIMES)
    /\ PRIMES' = IF DivPanics(opB) THEN PRIMES
                 ELSE CacheAfter(DivRaw(opA, opB), PRIMES)
    /\ UNCHANGED <<opA, opB, opRhs, shown, exprVars, threadVars>>

\* lib.rs 73-79
DoCheckedDiv ==
    /\ pc = "ready"
    /\ pc' = "checked_div"
    /\ result' = checked_div(opA, opB, PRIMES)
    /\ PRIMES' = IF checked_div(opA, opB, PRIMES).tag = "Ok"
                 THEN CacheAfter(DivRaw(opA, opB), PRIMES)
                 ELSE PRIMES
    /\ UNCHANGED <<opA, opB, opRhs, shown, exprVars, threadVars>>

\* impl AddAssign for Rational, lib.rs 110-114: self is overwritten with the
\* normalized sum, nothing is returned
DoAddAssign ==
    /\ pc = "ready"
    /\ pc' = "add_assign"
    /\ opA' = normalize(AddRaw(opA, opB), PRIMES)
    /\ PRIMES' = CacheAfter(AddRaw(opA, opB), PRIMES)
    /\ UNCHANGED <<opB, opRhs, result, shown, exprVars, threadVars>>

\* impl AddAssign<$i> for Rational, lib.rs 217-222
DoAddAssignInt ==
    \E rhs \in RhsInputs :
        /\ pc = "ready"
        /\ pc' = "add_assign_int"
        /\ opRhs' = rhs
        /\ opA' = normalize(AddIntRaw(opA, rhs), PRIMES)
        /\ PRIMES' = CacheAfter(AddIntRaw(opA, rhs), PRIMES)
        /\ UNCHANGED <<opB, result, shown, exprVars, threadVars>>

\* iter.fold(Self(1, 1), Self::mul): the accumulator and the prime cache
\* after the items from position k on
RECURSIVE ProductFold(_, _, _, _)
ProductFold(items, k, acc, cache) ==
    IF k > Len(items) THEN [val |-> acc, cache |-> cache]
    ELSE ProductFold(items, k + 1, mul(acc, items[k], cache),
                     CacheAfter(MulRaw(acc, items[k]), cache))

\* impl Product for Rational, lib.rs 82-86
product(items, cache) == ProductFold(items, 1, <<1, 1>>, cache)

\* the iterators handed to product: sequences of the two operands
ItemSeqs == UNION {[1..n -> {opA, opB}] : n \in 0..MaxItems}

\* lib.rs 82-86
DoProduct ==
    \E items \in ItemSeqs :
        /\ pc = "ready"
        /\ pc' = "product"
        /\ result' = Ok(product(items, PRIMES).val)
        /\ PRIMES' = product(items, PRIMES).cache
        /\ UNCHANGED <<opA, opB, opRhs, shown, exprVars, threadVars>>

\* lib.rs 97-99: no normalize
DoNeg ==
    /\ pc = "ready"
    /\ pc' = "neg"
    /\ result' = Ok(neg(opA))
    /\ UNCHANGED <<PRIMES, opA, opB, opRhs, shown, exprVars, threadVars>>

\* an overload taking a plain integer on the right
IntOp(name, rhs, raw) ==
    /\ pc = "ready"
    /\ pc' = name
    /\ opRhs' = rhs
    /\ result' = Ok(normalize(raw, PRIMES))
    /\ PRIMES' = CacheAfter(raw, PRIMES)
    /\ UNCHANGED <<opA, opB, shown, exprVars, threadVars>>

\* lib.rs 213-215
DoAddInt == \E rhs \in RhsInputs : IntOp("add_int", rhs, AddIntRaw(opA, rhs))
\* lib.rs 226-228
DoSubInt == \E rhs \in RhsInputs : IntOp("sub_int", rhs, SubIntRaw(opA, rhs))
\* lib.rs 233-235
DoMulInt == \E rhs \in RhsInputs : IntOp("mul_int", rhs, MulIntRaw(opA, rhs))

\* lib.rs 241-243
DoDivInt ==
    \E rhs \in RhsInputs :
        /\ pc = "ready"
        /\ pc' = "div_int"
        /\ opRhs' = rhs
        /\ result' = div_int(opA, rhs, PRIMES)
        /\ PRIMES' = CacheAfter(DivIntRaw(opA, rhs), PRIMES)
        /\ UNCHANGED <<opA, opB, shown, exprVars, threadVars>>

\* lib.rs 142-152 and 156-158: the returned value is formatted
DoFmt ==
    /\ pc \in OpNames
    /\ result.tag = "Ok"
    /\ shown = ""
    /\ IF FmtPanics(result.val)
       THEN result' = Panic /\ pc' = "fmt_panic" /\ UNCHANGED shown
       ELSE shown' = fmt(result.val) /\ UNCHANGED <<result, pc>>
    /\ UNCHANGED <<PRIMES, opA, opB, opRhs, exprVars, threadVars>>

\* values that stay operands of the model
InRange(r) == Abs(r[1]) <= MaxKeep /\ Abs(r[2]) <= MaxKeep

\* the caller keeps the returned value as its next left operand
KeepAsA ==
    /\ pc \in OpNames
    /\ result.tag = "Ok"
    /\ InRange(result.val)
    /\ opA' = result.val
    /\ pc' = "ready"
    /\ result' = NoResult
    /\ opRhs' = 0
    /\ shown' = ""
    /\ UNCHANGED <<PRIMES, opB, exprVars, threadVars>>

\* the caller keeps the returned value as its next right operand
KeepAsB ==
    /\ pc \in OpNames
    /\ result.tag = "Ok"
    /\ InRange(result.val)
    /\ opB' = result.val
    /\ pc' = "ready"
    /\ result' = NoResult
    /\ opRhs' = 0
    /\ shown' = ""
    /\ UNCHANGED <<PRIMES, opA, exprVars, threadVars>>

\* after a compound assignment the caller goes on with the operand it
\* assigned, while both components are within -MaxKeep..MaxKeep
AfterAssign ==
    /\ pc \in {"add_assign", "add_assign_int"}
    /\ InRange(opA)
    /\ pc' = "ready"
    /\ opRhs' = 0
    /\ UNCHANGED <<PRIMES, opA, opB, result, shown, exprVars, threadVars>>

NextOps ==
    \/ DoAdd
    \/ DoSub
    \/ DoMul
    \/ DoDiv
    \/ DoCheckedDiv
    \/ DoNeg
    \/ DoAddAssign
    \/ DoAddAssignInt
    \/ DoProduct
    \/ AfterAssign
    \/ DoAddInt
    \/ DoSubInt
    \/ DoMulInt
    \/ DoDivInt
    \/ DoFmt
    \/ KeepAsA
    \/ KeepAsB

SpecOps == InitOps /\ [][NextOps]_vars

(***************************************************************************)
(* SpecPrimes: threads that each consume their own primes() iterator.  One *)
(* call of the closure of lib.rs 162-185 is split at every access to the   *)
(* shared vector; the MutexGuard `lock` is held from lib.rs 163 to the end *)
(* of the closure.                                                         *)
(***************************************************************************)
InitPrimes ==
    /\ PRIMES = <<>>
    /\ pc = "threads"
    /\ result = NoResult
    /\ shown = ""
    /\ ExprIdle
    /\ OpsIdle
    /\ ThreadsIdle

\* a lock that never excludes anyone
CanLockAlways(t) == TRUE

\* PRIMES.lock() succeeds only while no thread holds the mutex
CanLock(t) == lockHolder = 0

\* lib.rs 163: let mut lock = PRIMES.lock().unwrap()
PrimesLock(t) ==
    /\ tpc[t] = "idle"
    /\ te[t] <= MaxIndex
    /\ CanLock(t)
    /\ lockHolder' = t
    /\ tpc' = [tpc EXCEPT ![t] = "locked"]
    /\ UNCHANGED <<PRIMES, pc, result, shown, te, tprime, tval, exprVars, opVars>>

\* lib.rs 164-166: if lock.is_empty() { lock.push(2) }
PrimesEnsure(t) ==
    /\ tpc[t] = "locked"
    /\ PRIMES' = EnsureTwo(PRIMES)
    /\ tpc' = [tpc EXCEPT ![t] = "get"]
    /\ UNCHANGED <<pc, result, shown, lockHolder, te, tprime, tval, exprVars, opVars>>

\* lib.rs 167: lock.get(e).copied() is Some
PrimesHit(t) ==
    /\ tpc[t] = "get"
    /\ te[t] < Len(PRIMES)
    /\ tprime' = [tprime EXCEPT ![t] = PRIMES[te[t] + 1]]
    /\ tpc' = [tpc EXCEPT ![t] = "unlock"]
    /\ UNCHANGED <<PRIMES, pc, result, shown, lockHolder, te, tval, exprVars, opVars>>

\* lib.rs 167-181: lock.get(e) is None, the next prime is searched
PrimesFind(t) ==
    /\ tpc[t] = "get"
    /\ te[t] >= Len(PRIMES)
    /\ tprime' = [tprime EXCEPT ![t] = FindPrime(PRIMES)]
    /\ tpc' = [tpc EXCEPT ![t] = "push"]
    /\ UNCHANGED <<PRIMES, pc, result, shown, lockHolder, te, tval, exprVars, opVars>>

\* lib.rs 182: lock.push(prime)
PrimesPush(t) ==
    /\ tpc[t] = "push"
    /\ PRIMES' = Append(PRIMES, tprime[t])
    /\ tpc' = [tpc EXCEPT ![t] = "unlock"]
    /\ UNCHANGED <<pc, result, shown, lockHolder, te, tprime, tval, exprVars, opVars>>

\* lib.rs 183-185: the value is returned, the guard dropped, the range moves on
PrimesUnlock(t) ==
    /\ tpc[t] = "unlock"
    /\ lockHolder' = IF lockHolder = t THEN 0 ELSE lockHolder
    /\ tval' = [tval EXCEPT ![t] = Append(tval[t], tprime[t])]
    /\ te' = [te EXCEPT ![t] = te[t] + 1]
    /\ tpc' = [tpc EXCEPT ![t] = "idle"]
    /\ UNCHANGED <<PRIMES, pc, result, shown, tprime, exprVars, opVars>>

\* lib.rs 192-195: gcd breaks out of its loop; the next gcd call takes a new
\* iterator, which starts at index 0 again
PrimesRestart(t) ==
    /\ tpc[t] = "idle"
    /\ te[t] > 0
    /\ te' = [te EXCEPT ![t] = 0]
    /\ tval' = [tval EXCEPT ![t] = <<>>]
    /\ UNCHANGED <<PRIMES, pc, result, shown, lockHolder, tpc, tprime, exprVars, opVars>>

NextPrimes ==
    \E t \in Threads :
        \/ PrimesLock(t)
        \/ PrimesEnsure(t)
        \/ PrimesHit(t)
        \/ PrimesFind(t)
        \/ PrimesPush(t)
        \/ PrimesUnlock(t)
        \/ PrimesRestart(t)

SpecPrimes == InitPrimes /\ [][NextPrimes]_vars

(***************************************************************************)
(* SpecAll: a run of run_expr or a run of the operators.                   *)
(***************************************************************************)
InitAll == Init \/ InitOps

NextAll == Next \/ NextOps

SpecAll == InitAll /\ [][NextAll]_vars

(***************************************************************************)
(* Reference notions the properties are stated with.  They read the input  *)
(* line only, never the evaluator's vectors.                               *)
(***************************************************************************)
AcceptedChar(c) == IsDigit(c) \/ c \in OpChars \/ c = " "

BadPositions(l) == {i \in 1..Len(l) : ~AcceptedChar(l[i])}

OpPositions(l) == {i \in 1..Len(l) : l[i] \in OpChars}

NumOps(l) == Cardinality(OpPositions(l))

SetMin(S) == CHOOSE x \in S : \A y \in S : x <= y

\* position of the k-th operator; 0 before the first, Len + 1 after the last
NthOpPos(l, k) ==
    IF k = 0 THEN 0
    ELSE IF k > NumOps(l) THEN Len(l) + 1
    ELSE CHOOSE p \in OpPositions(l) :
             Cardinality({q \in OpPositions(l) : q <= p}) = k

\* positions of the digits of segment k, the text between operators k and k+1
SegDigits(l, k) ==
    {i \in (NthOpPos(l, k) + 1)..(NthOpPos(l, k + 1) - 1) : IsDigit(l[i])}

RECURSIVE DigitSum(_, _)
DigitSum(l, S) ==
    IF S = {} THEN 0
    ELSE LET i == SetMin(S) IN DigitValue(l[i]) + DigitSum(l, S \ {i})

RefOperand(l, k) == <<DigitSum(l, SegDigits(l, k)), 1>>

\* the operands of the segments 0..k that hold a digit, in order
RECURSIVE RefPartsUpTo(_, _)
RefPartsUpTo(l, k) ==
    IF k < 0 THEN <<>>
    ELSE RefPartsUpTo(l, k - 1)
         \o (IF SegDigits(l, k) = {} THEN <<>> ELSE <<RefOperand(l, k)>>)

RefOp(l, k) == OpFromChar(l[NthOpPos(l, k)])

\* operands and operators alternate, starting and ending with an operand
WellFormed(l) ==
    /\ BadPositions(l) = {}
    /\ \A k \in 0..NumOps(l) : SegDigits(l, k) # {}

\* the operators '/' whose right operand has the value zero
ZeroDivs(l) ==
    {k \in 1..NumOps(l) : RefOp(l, k) = "Slash" /\ RefOperand(l, k)[1] = 0}

\* exact arithmetic on unreduced pairs
RefApply(op, a, b) ==
    CASE op = "Star" -> <<a[1] * b[1], a[2] * b[2]>>
      [] op = "Slash" -> <<a[1] * b[2], a[2] * b[1]>>
      [] op = "Plus" -> <<a[1] * b[2] + b[1] * a[2], a[2] * b[2]>>
      [] op = "Min" -> <<a[1] * b[2] - b[1] * a[2], a[2] * b[2]>>

\* one pass: `term` collects a run of '*' and '/', `total` the sum of the
\* terms closed so far, `sign` the additive operator in front of `term`
RECURSIVE RefEvalFrom(_, _, _, _, _)
RefEvalFrom(l, k, total, sign, term) ==
    IF k > NumOps(l) THEN RefApply(sign, total, term)
    ELSE IF RefOp(l, k) \in {"Star", "Slash"}
    THEN RefEvalFrom(l, k + 1, total, sign,
                     RefApply(RefOp(l, k), term, RefOperand(l, k)))
    ELSE RefEvalFrom(l, k + 1, RefApply(sign, total, term), RefOp(l, k),
                     RefOperand(l, k))

RefEval(l) == RefEvalFrom(l, 1, <<0, 1>>, "Plus", RefOperand(l, 0))

\* two pairs denote the same rational number
RatEq(a, b) == a[2] # 0 /\ b[2] # 0 /\ a[1] * b[2] = b[1] * a[2]

RECURSIVE Euclid(_, _)
Euclid(a, b) == IF b = 0 THEN a ELSE Euclid(b, a % b)

IsPrime(n) == n >= 2 /\ \A d \in 2..(n - 1) : n % d # 0

Returned == pc \in {"returned", "printed"}

(***************************************************************************)
(* Properties.                                                             *)
(***************************************************************************)

\* C1: for every line over the accepted alphabet, run_expr fails with a
\* parse error or leaves tokenizing with one operand more than operators;
\* every reduction step keeps that relation, no step faults, and a returned
\* value is the single operand left once the operator list is empty.
C1_OperandCountKept ==
    BadPositions(line) = {} =>
        /\ result.tag # "Panic"
        /\ (pc = "reduce" \/ (Returned /\ result.tag \in {"Ok", "DivisionByZero"}))
               => Len(parts) = Len(ops) + 1
        /\ (Returned /\ result.tag = "Ok")
               => (ops = <<>> /\ parts = <<result.val>>)

\* C2: every value run_expr returns is in lowest terms for the Euclidean
\* gcd, in which gcd(0, n) = n, so a zero-valued result has a denominator
\* of magnitude 1.
C2_LowestTerms ==
    (Returned /\ result.tag = "Ok")
        => Euclid(Abs(result.val[1]), Abs(result.val[2])) = 1

\* C3: dividing a Rational by the plain integer 0 ends in the fatal fault; it
\* never returns a value, in particular none whose denominator is 0.
C3_DivIntZeroFaults ==
    (pc = "div_int" /\ opRhs = 0) => result.tag = "Panic"


\* the text is the integer part q directly followed by the remainder r, a
\* slash and the denominator, where a = q * b + r with r carrying the sign
\* of a (truncating division)
MixedForm(a, b, text) ==
    \E q \in (0 - Abs(a))..Abs(a) :
        \E r \in (1 - Abs(b))..(Abs(b) - 1) :
            /\ a = q * b + r
            /\ (r = 0 \/ (r < 0) = (a < 0))
            /\ text = IntToStr(q) \o IntToStr(r) \o "/" \o IntToStr(b)

\* a value was returned and formatted
Formatted == pc \in OpNames /\ result.tag = "Ok" /\ shown # ""

\* C4 as stated: a value whose denominator is neither 1 nor -1 displays as
\* integer part, remainder, '/', denominator; Rational(7,2) displays as
\* "31/2" and Rational(-7,2) as "-4-1/2".
C4_DisplayAsClaimed ==
    Formatted =>
        /\ result.val[2] \notin {1, -1}
               => MixedForm(result.val[1], result.val[2], shown)
        /\ result.val = <<7, 2>> => shown = "31/2"
        /\ result.val = <<-7, 2>> => shown = "-4-1/2"

\* C4 amended: as C4, but Rational(-7,2) displays as "-3-1/2", the
\* integer part being -7 / 2 = -3 under truncating division.
C4_DisplayTruncates ==
    Formatted =>
        /\ result.val[2] \notin {1, -1}
               => MixedForm(result.val[1], result.val[2], shown)
        /\ result.val = <<7, 2>> => shown = "31/2"
        /\ result.val = <<-7, 2>> => shown = "-3-1/2"

C4_Witness == pc = "div" /\ result = Ok(<<-7, 2>>) /\ shown = "-3-1/2"

\* C5: for a well-formed expression without division by zero, run_expr
\* returns the value of the reference evaluation: all '*' and '/' left to
\* right, then all '+' and '-' left to right.
C5_PrecedenceValue ==
    (Returned /\ WellFormed(line) /\ ZeroDivs(line) = {}) =>
        /\ result.tag = "Ok"
        /\ RatEq(result.val, RefEval(line))
        /\ line = Line_6div3mul2 => result.val = <<4, 1>>
        /\ line = Line_2plus3mul4 => result.val = <<14, 1>>
        /\ line = Line_1minus2minus3 => result.val = <<-4, 1>>

C5_Witness == line = Line_2plus3mul4 /\ pc = "printed" /\ shown = "Ok(14)"

\* C6: checked_div fails with DivisionByZero exactly when the divisor's
\* numerator is 0 and otherwise gives the quotient; for a well-formed
\* expression run_expr returns DivisionByZero exactly when some '/' has a
\* right operand of value zero, and it stops at the first such operator.
C6_DivisionByZero ==
    /\ pc = "checked_div" =>
           /\ opB[1] = 0 => result = DivisionByZero
           /\ (opB[1] # 0 /\ opB[2] = 0) => result.tag = "Panic"
           /\ (opB[1] # 0 /\ opB[2] # 0) =>
                  /\ result.tag = "Ok"
                  /\ result.val[1] * (opA[2] * opB[1])
                         = (opA[1] * opB[2]) * result.val[2]
    /\ (Returned /\ WellFormed(line)) =>
           /\ (result = DivisionByZero) <=> (ZeroDivs(line) # {})
           /\ ZeroDivs(line) # {} =>
                  /\ tier = 1
                  /\ Len(ops) = index + NumOps(line) - SetMin(ZeroDivs(line))

C6_Witness ==
    line = Line_2plus1div0mul3 /\ pc = "printed" /\ shown = "Err(DivisionByZero)"

\* the cache holds the first Len(PRIMES) primes in ascending order
CacheIsPrimePrefix ==
    /\ \A i \in 1..Len(PRIMES) : IsPrime(PRIMES[i])
    /\ \A i \in 1..(Len(PRIMES) - 1) : PRIMES[i] < PRIMES[i + 1]
    /\ PRIMES # <<>> => PRIMES[1] = 2
    /\ \A i \in 1..Len(PRIMES) :
           \A n \in 2..PRIMES[i] : IsPrime(n) => \E j \in 1..i : PRIMES[j] = n

\* a step removes or changes no entry
CacheAppendOnly ==
    /\ Len(PRIMES') >= Len(PRIMES)
    /\ SubSeq(PRIMES', 1, Len(PRIMES)) = PRIMES

\* C7: under any interleaving of the threads the prime cache is strictly
\* ascending, duplicate-free, starts with 2, holds exactly the first n
\* primes without a gap, and only grows by appending.
C7_PrimeCache == [](CacheIsPrimePrefix) /\ [][CacheAppendOnly]_vars

C7_Witness ==
    /\ PRIMES = <<2, 3, 5, 7>>
    /\ tval[1] # <<>>
    /\ tval[2] # <<>>
    /\ \E t \in Threads : tpc[t] = "locked"

\* C8: a line holding a character outside the accepted alphabet makes
\* run_expr return InvalidSyntax(i), i the zero-based index of the first such
\* character, whatever else the line holds; the scan never goes past it.
C8_FirstBadChar ==
    BadPositions(line) # {} =>
        /\ pc \in {"scan", "returned", "printed"}
        /\ pos < SetMin(BadPositions(line))
        /\ Returned =>
               result = [tag |-> "InvalidSyntax",
                         val |-> <<SetMin(BadPositions(line)) - 1>>]

C8_Witness == line = Line_1plusx /\ shown = "Err(InvalidSyntax(2))"

\* tokenizing has just ended: no operator has been reduced yet
JustTokenized ==
    pc = "reduce" /\ tier = 1 /\ index = 0 /\ Len(ops) = NumOps(line)

\* C9: each operand produced by tokenizing is the sum of the digits between
\* two consecutive operators (or a line end and an operator); spaces inside
\* such a run do not end the operand; "23+4" gives operands 5 and 4 and
\* evaluates to 9.
C9_DigitSums ==
    /\ pc = "scan" =>
           LET l == SubSeq(line, 1, pos)
               n == NumOps(l)
           IN  /\ parts = RefPartsUpTo(l, n - 1)
               /\ cur = IF SegDigits(l, n) = {} THEN <<>>
                        ELSE <<RefOperand(l, n)>>
    /\ JustTokenized => parts = RefPartsUpTo(line, NumOps(line))
    /\ (line = Line_23plus4 /\ JustTokenized) => parts = << <<5, 1>>, <<4, 1>> >>
    /\ (line = Line_23plus4 /\ Returned) => result = Ok(<<9, 1>>)

C9_Witness == line = Line_23plus4 /\ shown = "Ok(9)"

\* C10: during run_expr every operand has a strictly positive denominator,
\* so a returned value has one too and is never formatted by the branch for
\* denominator -1.
C10_PositiveDenominators ==
    pc \in {"scan", "reduce", "returned", "printed"} =>
        /\ \A i \in 1..Len(parts) : parts[i][2] > 0
        /\ cur # <<>> => cur[1][2] > 0
        /\ result.tag = "Ok" =>
               (result.val[2] > 0 /\ FmtBranch(result.val) # "negated")

C10_Witness == line = Line_0minus7div2 /\ shown = "Ok(-3-1/2)"

====
